---- MODULE Spec2Model ----
(***************************************************************************)
(* Model of samples/hello_ar_kotlin/server/websocket_server.py: the        *)
(* CLIENTS registry, register / unregister, and handle_connection with its *)
(* message dispatch, run by a cooperative (asyncio) scheduler.             *)
(*                                                                         *)
(* A coroutine runs without interruption between two suspension points.    *)
(* handle_connection suspends only in `async for message in websocket`,    *)
(* so every action below is one such uninterrupted stretch of code.        *)
(***************************************************************************)
EXTENDS Integers, Sequences, FiniteSets, TLC

(* Number of connection handles the server sees during a run. *)
NumConns == 3

(* Number of handles used when register / unregister are called directly. *)
NumHandles == 4

Conns == 1..NumConns

Handles == 1..NumHandles

VARIABLES
    CLIENTS,      \* the module-level set of connection handles
    pc,           \* per connection: where its handle_connection task is
    chan,         \* per connection: state of the underlying channel
    interrupted,  \* the process got KeyboardInterrupt; tasks are cancelled
    log,          \* the lines the last step wrote to the logging output
    sent,         \* every frame the server has sent to a client
    calls,        \* how many register / unregister calls have returned
    last,         \* the last step taken (operation, connection, input)
    decoded       \* the decoded message, when the loop body is run directly

vars == <<CLIENTS, pc, chan, interrupted, log, sent, calls, last, decoded>>

----------------------------------------------------------------------------
(* JSON values, as json.loads returns them.                                *)
(* Numbers are kept in ten-thousandths: Num(15000) is 1.5.                 *)

Null == [t |-> "null"]

Bool(b) == [t |-> "bool", b |-> b]

Num(n) == [t |-> "num", n |-> n]

Str(s) == [t |-> "str", s |-> s]

Arr == [t |-> "arr"]

Obj(f) == [t |-> "obj", o |-> f]

EmptyObj == Obj(<<>>)

(* Result of an expression that may raise. *)
Ok(v) == [ok |-> TRUE, val |-> v]

Raise(e) == [ok |-> FALSE, exc |-> e]

(* v.get(key, default): a dict method; any other value has no .get *)
Get(v, key, default) ==
    IF v.t = "obj"
    THEN Ok(IF key \in DOMAIN v.o THEN v.o[key] ELSE default)
    ELSE Raise("AttributeError")

(* Python truthiness of a JSON value, as in `'Active' if v else 'Inactive'` *)
Truthy(v) ==
    CASE v.t = "null" -> FALSE
      [] v.t = "bool" -> v.b
      [] v.t = "num"  -> v.n # 0
      [] v.t = "str"  -> v.s # ""
      [] v.t = "arr"  -> TRUE
      [] v.t = "obj"  -> DOMAIN v.o # {}

ToggleText(v) == IF Truthy(v) THEN "Active" ELSE "Inactive"

Abs(n) == IF n < 0 THEN 0 - n ELSE n

(* json.loads turns a decimal numeral into the nearest double. These are   *)
(* the magnitudes used in this model, in ten-thousandths, whose double     *)
(* lies above the decimal value (0.0005 and 0.0015); the double of every   *)
(* other magnitude used here lies below it or is exact.                    *)
ParsedAbove == {5, 15}

(* Variant: the digits beyond the precision are cut off. *)
RoundTo_truncates(n, step) == n \div step

(* A magnitude in ten-thousandths rounded to a multiple of `step`, as the  *)
(* float formatting rounds the double: to the nearest, and on a decimal    *)
(* tie by where the double lies; a multiple of 0.0625 is exact in binary,  *)
(* and an exact tie goes to the even neighbour.                            *)
RoundTo(n, step) ==
    LET q == n \div step
        r == n % step
        half == step \div 2
    IN  IF r < half THEN q
        ELSE IF r > half THEN q + 1
        ELSE IF n % 625 = 0 THEN (IF q % 2 = 0 THEN q ELSE q + 1)
        ELSE IF n \in ParsedAbove THEN q + 1 ELSE q

(* format(n, '.3f') / format(n, '.2f') of a number: sign and digits *)
Fixed(n, digits) ==
    [digits |-> digits,
     sign |-> IF n < 0 THEN "-" ELSE "",
     units |-> RoundTo(Abs(n), IF digits = 3 THEN 10 ELSE 100)]

(* f"{v:.3f}" and f"{v:.2f}": the text printed, or the exception; a bool   *)
(* is an int and prints as 1 or 0                                          *)
FormatFixed(v, digits) ==
    CASE v.t = "num"  -> Ok(Fixed(v.n, digits))
      [] v.t = "bool" -> Ok(Fixed(IF v.b THEN 10000 ELSE 0, digits))
      [] v.t = "str"  -> Raise("ValueError")
      [] OTHER        -> Raise("TypeError")

(* f"{container.get(key, default):.Nf}" *)
GetFormatted(container, key, default, digits) ==
    LET g == Get(container, key, default)
    IN  IF g.ok THEN FormatFixed(g.val, digits) ELSE g

(* The first failure among results evaluated left to right, if any. *)
RECURSIVE FirstFailure(_)
FirstFailure(rs) ==
    IF rs = <<>> THEN Ok(Null)
    ELSE IF ~Head(rs).ok THEN Head(rs)
    ELSE FirstFailure(Tail(rs))

----------------------------------------------------------------------------
(* Log lines.                                                              *)

ClientLine(what, count) ==
    [level |-> "INFO", kind |-> what, count |-> count]

PoseLine(p, r, scale, toggle) ==
    [level |-> "INFO", kind |-> "pose",
     x |-> p[1].val, y |-> p[2].val, z |-> p[3].val,
     roll |-> r[1].val, pitch |-> r[2].val, yaw |-> r[3].val,
     scale |-> scale.val, toggle |-> toggle]

ToggleLine(toggle) == [level |-> "INFO", kind |-> "toggle", toggle |-> toggle]

ButtonLine == [level |-> "INFO", kind |-> "button"]

ResetLine == [level |-> "INFO", kind |-> "reset"]

UnknownTypeLine(type) == [level |-> "WARNING", kind |-> "unknown", type |-> type]

ParseErrorLine(message) ==
    [level |-> "ERROR", kind |-> "parse_error", message |-> message]

ProcessingErrorLine(e) ==
    [level |-> "ERROR", kind |-> "processing_error", exc |-> e]

----------------------------------------------------------------------------
(* The wire texts a client sends in this model, and json.loads on each.    *)

TextNotJson == "pose: 1 2 3"

TextButton == "{\"type\":\"button\"}"

TextFlatPose == "{\"x\":1,\"y\":2.5,\"z\":3,\"yaw\":0.125,\"toggle_active\":true}"

TextToggle == "{\"type\":\"toggle\",\"isActive\":true}"

TextMystery == "{\"type\":\"mystery\"}"

TextArray == "[1,2,3]"

TextNullPosition == "{\"type\":\"pose\",\"position\":null}"

TextStringX == "{\"type\":\"pose_data\",\"x\":\"left\"}"

Messages ==
    {TextNotJson, TextButton, TextFlatPose, TextToggle, TextMystery,
     TextArray, TextNullPosition, TextStringX}

(* json.loads(message): the decoded value, or JSONDecodeError *)
JsonLoads(message) ==
    CASE message = TextButton -> Ok(Obj([type |-> Str("button")]))
      [] message = TextFlatPose ->
            Ok(Obj([x |-> Num(10000), y |-> Num(25000), z |-> Num(30000),
                    yaw |-> Num(1250), toggle_active |-> Bool(TRUE)]))
      [] message = TextToggle ->
            Ok(Obj([type |-> Str("toggle"), isActive |-> Bool(TRUE)]))
      [] message = TextMystery -> Ok(Obj([type |-> Str("mystery")]))
      [] message = TextArray -> Ok(Arr)
      [] message = TextNullPosition ->
            Ok(Obj([type |-> Str("pose"), position |-> Null]))
      [] message = TextStringX ->
            Ok(Obj([type |-> Str("pose_data"), x |-> Str("left")]))
      [] OTHER -> Raise("JSONDecodeError")

----------------------------------------------------------------------------
(* The body of the inner try of handle_connection, after json.loads.       *)

(* Variant: data.get('position') and data.get('rotation') without {}. *)
NestedPose_no_default_objects(data) ==
    LET position_obj == Get(data, "position", Null).val
        rotation_obj == Get(data, "rotation", Null).val
        p == <<GetFormatted(position_obj, "x", Num(0), 3),
               GetFormatted(position_obj, "y", Num(0), 3),
               GetFormatted(position_obj, "z", Num(0), 3)>>
        r == <<GetFormatted(rotation_obj, "roll", Num(0), 2),
               GetFormatted(rotation_obj, "pitch", Num(0), 2),
               GetFormatted(rotation_obj, "yaw", Num(0), 2)>>
        toggle == ToggleText(Get(data, "isToggleActive", Bool(FALSE)).val)
        scale == GetFormatted(data, "scale", Num(10000), 2)
        failure == FirstFailure(p \o r \o <<scale>>)
    IN  IF failure.ok THEN Ok(PoseLine(p, r, scale, toggle)) ELSE failure

(* message_type == 'pose': nested position and rotation objects *)
NestedPose(data) ==
    LET position_obj == Get(data, "position", EmptyObj).val
        rotation_obj == Get(data, "rotation", EmptyObj).val
        p == <<GetFormatted(position_obj, "x", Num(0), 3),
               GetFormatted(position_obj, "y", Num(0), 3),
               GetFormatted(position_obj, "z", Num(0), 3)>>
        r == <<GetFormatted(rotation_obj, "roll", Num(0), 2),
               GetFormatted(rotation_obj, "pitch", Num(0), 2),
               GetFormatted(rotation_obj, "yaw", Num(0), 2)>>
        toggle == ToggleText(Get(data, "isToggleActive", Bool(FALSE)).val)
        scale == GetFormatted(data, "scale", Num(10000), 2)
        failure == FirstFailure(p \o r \o <<scale>>)
    IN  IF failure.ok THEN Ok(PoseLine(p, r, scale, toggle)) ELSE failure

(* message_type == 'pose_data': flat structure *)
FlatPose(data) ==
    LET p == <<GetFormatted(data, "x", Num(0), 3),
               GetFormatted(data, "y", Num(0), 3),
               GetFormatted(data, "z", Num(0), 3)>>
        r == <<GetFormatted(data, "roll", Num(0), 2),
               GetFormatted(data, "pitch", Num(0), 2),
               GetFormatted(data, "yaw", Num(0), 2)>>
        scale == GetFormatted(data, "scale", Num(10000), 2)
        toggle == ToggleText(Get(data, "toggle_active", Bool(FALSE)).val)
        failure == FirstFailure(p \o r \o <<scale>>)
    IN  IF failure.ok THEN Ok(PoseLine(p, r, scale, toggle)) ELSE failure

(* Variant: isActive is looked up first. *)
ToggleState_isActive_first(data) ==
    LET toggle_active == Get(data, "toggle_active", Bool(FALSE)).val
        isActive == Get(data, "isActive", toggle_active).val
    IN  Ok(ToggleLine(ToggleText(isActive)))

(* message_type in ('toggle_state', 'toggle') *)
ToggleState(data) ==
    LET isActive == Get(data, "isActive", Bool(FALSE)).val
        toggle_active == Get(data, "toggle_active", isActive).val
    IN  Ok(ToggleLine(ToggleText(toggle_active)))

(* Variant: data.get('type') without the default. *)
HandleData_no_default_type(data) ==
    LET got == Get(data, "type", Null)
    IN  IF ~got.ok THEN got
        ELSE LET message_type == got.val
             IN  CASE message_type = Str("pose") -> NestedPose(data)
                   [] message_type = Str("pose_data") -> FlatPose(data)
                   [] message_type \in {Str("toggle_state"), Str("toggle")} ->
                         ToggleState(data)
                   [] message_type \in {Str("button_press"), Str("button")} ->
                         Ok(ButtonLine)
                   [] message_type \in {Str("reset_pose"), Str("reset")} ->
                         Ok(ResetLine)
                   [] OTHER -> Ok(UnknownTypeLine(message_type))

(* Variant: only the long type names are recognised. *)
HandleData_no_short_names(data) ==
    LET got == Get(data, "type", Str("pose_data"))
    IN  IF ~got.ok THEN got
        ELSE LET message_type == got.val
             IN  CASE message_type = Str("pose") -> NestedPose(data)
                   [] message_type = Str("pose_data") -> FlatPose(data)
                   [] message_type = Str("toggle_state") -> ToggleState(data)
                   [] message_type = Str("button_press") -> Ok(ButtonLine)
                   [] message_type = Str("reset_pose") -> Ok(ResetLine)
                   [] OTHER -> Ok(UnknownTypeLine(message_type))

(* Variant: the pose shape is chosen by the fields that are present. *)
HandleData_shape_by_fields(data) ==
    LET got == Get(data, "type", Str("pose_data"))
    IN  IF ~got.ok THEN got
        ELSE LET message_type == got.val
             IN  CASE message_type \in {Str("pose"), Str("pose_data")} ->
                         IF {"position", "rotation"} \cap DOMAIN data.o # {}
                         THEN NestedPose(data)
                         ELSE FlatPose(data)
                   [] message_type \in {Str("toggle_state"), Str("toggle")} ->
                         ToggleState(data)
                   [] message_type \in {Str("button_press"), Str("button")} ->
                         Ok(ButtonLine)
                   [] message_type \in {Str("reset_pose"), Str("reset")} ->
                         Ok(ResetLine)
                   [] OTHER -> Ok(UnknownTypeLine(message_type))

(* The dispatch on data['type']: the line logged, or the exception raised *)
HandleData(data) ==
    LET got == Get(data, "type", Str("pose_data"))
    IN  IF ~got.ok THEN got
        ELSE LET message_type == got.val
             IN  CASE message_type = Str("pose") -> NestedPose(data)
                   [] message_type = Str("pose_data") -> FlatPose(data)
                   [] message_type \in {Str("toggle_state"), Str("toggle")} ->
                         ToggleState(data)
                   [] message_type \in {Str("button_press"), Str("button")} ->
                         Ok(ButtonLine)
                   [] message_type \in {Str("reset_pose"), Str("reset")} ->
                         Ok(ResetLine)
                   [] OTHER -> Ok(UnknownTypeLine(message_type))

(* Variant: JSONDecodeError is not caught by the inner try. *)
ProcessMessage_decode_escapes(ws, message) ==
    LET data == JsonLoads(message)
    IN  IF ~data.ok
        THEN [log |-> <<>>, frames |-> {}, escaped |-> TRUE]
        ELSE LET handled == HandleData(data.val)
             IN  IF handled.ok
                 THEN [log |-> <<handled.val>>, frames |-> {},
                       escaped |-> FALSE]
                 ELSE [log |-> <<ProcessingErrorLine(handled.exc)>>,
                       frames |-> {}, escaped |-> FALSE]

(* Variant: only JSONDecodeError is caught by the inner try. *)
ProcessMessage_only_decode_caught(ws, message) ==
    LET data == JsonLoads(message)
    IN  IF ~data.ok
        THEN [log |-> <<ParseErrorLine(message)>>, frames |-> {},
              escaped |-> FALSE]
        ELSE LET handled == HandleData(data.val)
             IN  IF handled.ok
                 THEN [log |-> <<handled.val>>, frames |-> {},
                       escaped |-> FALSE]
                 ELSE [log |-> <<>>, frames |-> {}, escaped |-> TRUE]

(* Variant: a parse failure is also reported back to the sender. *)
ProcessMessage_replies_error(ws, message) ==
    LET data == JsonLoads(message)
    IN  IF ~data.ok
        THEN [log |-> <<ParseErrorLine(message)>>,
              frames |-> {<<ws, "error">>}, escaped |-> FALSE]
        ELSE LET handled == HandleData(data.val)
             IN  IF handled.ok
                 THEN [log |-> <<handled.val>>, frames |-> {},
                       escaped |-> FALSE]
                 ELSE [log |-> <<ProcessingErrorLine(handled.exc)>>,
                       frames |-> {}, escaped |-> FALSE]

(* The loop body after json.loads has returned `data`: the dispatch, and   *)
(* the except Exception clause around it.                                  *)
ProcessDecoded(ws, data) ==
    LET handled == HandleData(data)
    IN  IF handled.ok
        THEN [log |-> <<handled.val>>, frames |-> {}, escaped |-> FALSE]
        ELSE [log |-> <<ProcessingErrorLine(handled.exc)>>,
              frames |-> {}, escaped |-> FALSE]

(* One pass of the loop body for one inbound message: the lines logged,    *)
(* the frames sent to clients, and whether an exception leaves the inner   *)
(* try (and so reaches the finally of handle_connection).                  *)
ProcessMessage(ws, message) ==
    LET data == JsonLoads(message)
    IN  IF ~data.ok
        THEN [log |-> <<ParseErrorLine(message)>>, frames |-> {},
              escaped |-> FALSE]
        ELSE ProcessDecoded(ws, data.val)

----------------------------------------------------------------------------
(* The registry.                                                           *)

(* Variant: the add is missing. *)
register_skips_add(clients, websocket) ==
    [CLIENTS |-> clients,
     log |-> <<ClientLine("connected", Cardinality(clients))>>]

(* Variant: the size is taken before the add. *)
register_stale_count(clients, websocket) ==
    [CLIENTS |-> clients \cup {websocket},
     log |-> <<ClientLine("connected", Cardinality(clients))>>]

(* register(websocket): CLIENTS.add, then the log line with len(CLIENTS) *)
register(clients, websocket) ==
    LET added == clients \cup {websocket}
    IN  [CLIENTS |-> added,
         log |-> <<ClientLine("connected", Cardinality(added))>>]

(* Variant: the remove is missing. *)
unregister_keeps(clients, websocket) ==
    [raised |-> FALSE, CLIENTS |-> clients,
     log |-> <<ClientLine("disconnected", Cardinality(clients))>>]

(* Variant: CLIENTS.discard, which ignores an absent element. *)
unregister_discard(clients, websocket) ==
    LET removed == clients \ {websocket}
    IN  [raised |-> FALSE, CLIENTS |-> removed,
         log |-> <<ClientLine("disconnected", Cardinality(removed))>>]

(* Variant: CLIENTS.clear in place of CLIENTS.remove. *)
unregister_clears(clients, websocket) ==
    [raised |-> FALSE, CLIENTS |-> {},
     log |-> <<ClientLine("disconnected", 0)>>]

(* unregister(websocket): CLIENTS.remove raises KeyError on an absent      *)
(* element, and then the log line is not reached                           *)
unregister(clients, websocket) ==
    IF websocket \in clients
    THEN LET removed == clients \ {websocket}
         IN  [raised |-> FALSE, CLIENTS |-> removed,
              log |-> <<ClientLine("disconnected", Cardinality(removed))>>]
    ELSE [raised |-> TRUE, CLIENTS |-> clients, log |-> <<>>]

----------------------------------------------------------------------------
(* The server: one handle_connection task per accepted connection.         *)

Step(op, c, m, exc) == [op |-> op, conn |-> c, msg |-> m, exc |-> exc]

NoStep == Step("none", 0, "", "")

Init ==
    /\ CLIENTS = {}
    /\ pc = [c \in Conns |-> "pending"]
    /\ chan = [c \in Conns |-> "open"]
    /\ interrupted = FALSE
    /\ log = <<>>
    /\ sent = {}
    /\ calls = [register |-> 0, unregister |-> 0]
    /\ last = NoStep
    /\ decoded = Null

(* websockets.serve accepts a connection and creates its handler task *)
Accept(c) ==
    /\ ~interrupted
    /\ pc[c] = "pending"
    /\ pc' = [pc EXCEPT ![c] = "accepted"]
    /\ log' = <<>>
    /\ last' = Step("accept", c, "", "")
    /\ UNCHANGED <<CLIENTS, chan, interrupted, sent, calls, decoded>>

(* handle_connection up to its first suspension: await register(websocket) *)
Start(c) ==
    /\ ~interrupted
    /\ pc[c] = "accepted"
    /\ LET r == register(CLIENTS, c)
       IN  /\ CLIENTS' = r.CLIENTS
           /\ log' = r.log
    /\ calls' = [calls EXCEPT !.register = @ + 1]
    /\ pc' = [pc EXCEPT ![c] = "loop"]
    /\ last' = Step("register", c, "", "")
    /\ UNCHANGED <<chan, interrupted, sent, decoded>>

(* Variant: messages are consumed before register has run. *)
CanReceive_before_register(c) ==
    pc[c] \in {"accepted", "loop"} /\ chan[c] = "open" /\ ~interrupted

(* `async for` can yield a message: the task is suspended in the loop, the *)
(* channel is open and the task is not cancelled                          *)
CanReceive(c) == pc[c] = "loop" /\ chan[c] = "open" /\ ~interrupted

(* the finally clause: await unregister(websocket), then the task ends;    *)
(* `before` is what the step logged before it reached the finally          *)
Finally(c, op, m, before) ==
    LET u == unregister(CLIENTS, c)
    IN  /\ CLIENTS' = u.CLIENTS
        /\ log' = before \o u.log
        /\ calls' = IF u.raised THEN calls
                    ELSE [calls EXCEPT !.unregister = @ + 1]
        /\ pc' = [pc EXCEPT ![c] = IF u.raised THEN "crashed" ELSE "done"]
        /\ last' = Step(op, c, m, IF u.raised THEN "KeyError" ELSE "")
        /\ UNCHANGED <<chan, interrupted, decoded>>

(* `async for` yields message m and the loop body runs on it *)
Receive(c, m) ==
    /\ CanReceive(c)
    /\ LET out == ProcessMessage(c, m)
       IN  /\ sent' = sent \cup out.frames
           /\ IF out.escaped
              THEN Finally(c, "receive", m, out.log)
              ELSE /\ log' = out.log
                   /\ last' = Step("receive", c, m, "")
                   /\ UNCHANGED <<CLIENTS, pc, chan, interrupted, calls, decoded>>

(* the peer closes the connection with a normal close frame *)
ClientClose(c) ==
    /\ pc[c] \in {"accepted", "loop"}
    /\ chan[c] = "open"
    /\ chan' = [chan EXCEPT ![c] = "closed_ok"]
    /\ log' = <<>>
    /\ last' = Step("close", c, "", "")
    /\ UNCHANGED <<CLIENTS, pc, interrupted, sent, calls, decoded>>

(* the transport fails or the peer breaks the protocol *)
TransportError(c) ==
    /\ pc[c] \in {"accepted", "loop"}
    /\ chan[c] = "open"
    /\ chan' = [chan EXCEPT ![c] = "closed_error"]
    /\ log' = <<>>
    /\ last' = Step("error", c, "", "")
    /\ UNCHANGED <<CLIENTS, pc, interrupted, sent, calls, decoded>>

(* The channel has ended for the handler: the iteration stops (normal      *)
(* close), raises ConnectionClosedError, or raises CancelledError          *)
Ended(c) == chan[c] # "open" \/ interrupted

(* Variant: unregister follows the loop without try / finally, so an       *)
(* exception raised out of the iteration skips it.                         *)
Finish_without_finally(c) ==
    /\ pc[c] = "loop"
    /\ Ended(c)
    /\ IF chan[c] = "closed_ok"
       THEN Finally(c, "unregister", "", <<>>)
       ELSE /\ pc' = [pc EXCEPT ![c] = "crashed"]
            /\ log' = <<>>
            /\ last' = Step("unregister", c, "", "ConnectionClosedError")
            /\ UNCHANGED <<CLIENTS, chan, interrupted, calls, decoded>>
    /\ UNCHANGED sent

(* the loop is left, through the finally clause *)
Finish(c) ==
    /\ pc[c] = "loop"
    /\ Ended(c)
    /\ Finally(c, "unregister", "", <<>>)
    /\ UNCHANGED sent

(* a task cancelled before its first step never runs its coroutine *)
CancelUnstarted(c) ==
    /\ interrupted
    /\ pc[c] = "accepted"
    /\ pc' = [pc EXCEPT ![c] = "cancelled"]
    /\ log' = <<>>
    /\ last' = Step("cancel", c, "", "")
    /\ UNCHANGED <<CLIENTS, chan, interrupted, sent, calls, decoded>>

(* KeyboardInterrupt: asyncio.run cancels every task, then logs *)
Interrupt ==
    /\ ~interrupted
    /\ interrupted' = TRUE
    /\ log' = <<[level |-> "INFO", kind |-> "stopped"]>>
    /\ last' = Step("interrupt", 0, "", "")
    /\ UNCHANGED <<CLIENTS, pc, chan, sent, calls, decoded>>

Next ==
    \/ \E c \in Conns : Accept(c)
    \/ \E c \in Conns : Start(c)
    \/ \E c \in Conns : \E m \in Messages : Receive(c, m)
    \/ \E c \in Conns : ClientClose(c)
    \/ \E c \in Conns : TransportError(c)
    \/ \E c \in Conns : Finish(c)
    \/ \E c \in Conns : CancelUnstarted(c)
    \/ Interrupt

Spec == Init /\ [][Next]_vars

(* The event loop runs every ready task: a handler that can start its      *)
(* coroutine or leave its loop eventually does.                            *)
FairSpec ==
    /\ Spec
    /\ \A c \in Conns : WF_vars(Start(c))
    /\ \A c \in Conns : WF_vars(Finish(c))
    /\ \A c \in Conns : WF_vars(CancelUnstarted(c))

----------------------------------------------------------------------------
(* register and unregister called directly, on any registry and handle.    *)

RegistryInit ==
    /\ CLIENTS \in SUBSET Handles
    /\ pc = [c \in Conns |-> "pending"]
    /\ chan = [c \in Conns |-> "open"]
    /\ interrupted = FALSE
    /\ log = <<>>
    /\ sent = {}
    /\ calls = [register |-> 0, unregister |-> 0]
    /\ last = NoStep
    /\ decoded = Null

CallRegister(h) ==
    /\ LET r == register(CLIENTS, h)
       IN  /\ CLIENTS' = r.CLIENTS
           /\ log' = r.log
    /\ last' = Step("register", h, "", "")
    /\ UNCHANGED <<pc, chan, interrupted, sent, calls, decoded>>

CallUnregister(h) ==
    /\ LET u == unregister(CLIENTS, h)
       IN  /\ CLIENTS' = u.CLIENTS
           /\ log' = u.log
           /\ last' = Step("unregister", h, "", IF u.raised THEN "KeyError" ELSE "")
    /\ UNCHANGED <<pc, chan, interrupted, sent, calls, decoded>>

RegistryNext ==
    \/ \E h \in Handles : CallRegister(h)
    \/ \E h \in Handles : CallUnregister(h)

RegistrySpec == RegistryInit /\ [][RegistryNext]_vars

----------------------------------------------------------------------------
(* The loop body run directly on decoded messages: JSON objects with at    *)
(* most MaxKeys of the payload keys the dispatch reads, each with a few    *)
(* values (numbers that round up, down, on a tie, negative; a string and a *)
(* null where a number is expected), without a `type` and with one.        *)

(* Largest number of top-level keys, `type` aside, in a generated message. *)
MaxKeys == 2

TypeNames ==
    {"pose_data", "pose", "toggle_state", "toggle", "button_press", "button",
     "reset_pose", "reset", "mystery"}

FullPosition == [x |-> Num(12346), y |-> Num(-4), z |-> Num(15)]

FullRotation == [roll |-> Num(26750), pitch |-> Num(1250), yaw |-> Num(-450)]

Restrict(f, K) == [k \in K |-> f[k]]

SubObjects(f) == {Obj(Restrict(f, K)) : K \in SUBSET DOMAIN f}

Keys ==
    {"type", "x", "y", "z", "roll", "pitch", "yaw", "scale", "toggle_active",
     "isActive", "isToggleActive", "position", "rotation"}

FieldValues(k) ==
    CASE k = "type"  -> {Str(t) : t \in TypeNames} \cup {Null}
      [] k = "x"     -> {Num(12345), Num(-4), Str("left")}
      [] k = "y"     -> {Num(25000), Num(5)}
      [] k = "z"     -> {Num(30000), Num(625)}
      [] k = "roll"  -> {Num(100000), Num(1250)}
      [] k = "pitch" -> {Num(200000), Num(26750)}
      [] k = "yaw"   -> {Num(300000), Num(-450)}
      [] k = "scale" -> {Num(15000), Num(3125), Null}
      [] k = "toggle_active" -> {Bool(TRUE), Bool(FALSE), Null}
      [] k = "isActive" -> {Bool(TRUE), Bool(FALSE)}
      [] k = "isToggleActive" -> {Bool(TRUE), Bool(FALSE)}
      [] k = "position" -> SubObjects(FullPosition) \cup {Null}
      [] k = "rotation" -> SubObjects(FullRotation)

(* f with key k set to v *)
With(f, k, v) == [j \in DOMAIN f \cup {k} |-> IF j = k THEN v ELSE f[j]]

RECURSIVE ObjectsOver(_)
ObjectsOver(K) ==
    IF K = {} THEN {<<>>}
    ELSE LET k == CHOOSE j \in K : TRUE
         IN  {With(f, k, v) : f \in ObjectsOver(K \ {k}), v \in FieldValues(k)}

(* the objects without `type` that hold at most n keys *)
Payloads(n) ==
    UNION {ObjectsOver(K) :
             K \in {S \in SUBSET (Keys \ {"type"}) : Cardinality(S) <= n}}

(* The pose types go with every payload; the other types, whose branches   *)
(* read the toggle keys at most, go with payloads of those keys and x.     *)
TypesFor(f) ==
    IF DOMAIN f \subseteq {"toggle_active", "isActive", "x"}
    THEN FieldValues("type")
    ELSE {Str("pose_data"), Str("pose")}

(* the decoded messages whose payload holds at most n keys *)
DataSet(n) ==
    {Arr} \cup {Obj(f) : f \in Payloads(n)}
          \cup UNION {{Obj(With(f, "type", t)) : t \in TypesFor(f)} :
                        f \in Payloads(n)}

DispatchInit ==
    /\ decoded \in DataSet(MaxKeys)
    /\ CLIENTS = {}
    /\ pc = [c \in Conns |-> "pending"]
    /\ chan = [c \in Conns |-> "open"]
    /\ interrupted = FALSE
    /\ log = <<>>
    /\ sent = {}
    /\ calls = [register |-> 0, unregister |-> 0]
    /\ last = NoStep

(* lines 53-96 on the decoded message *)
Dispatch ==
    /\ last.op = "none"
    /\ LET out == ProcessDecoded(0, decoded)
       IN  /\ log' = out.log
           /\ sent' = sent \cup out.frames
    /\ last' = Step("dispatch", 0, "", "")
    /\ UNCHANGED <<CLIENTS, pc, chan, interrupted, calls, decoded>>

DispatchNext == Dispatch

DispatchSpec == DispatchInit /\ [][DispatchNext]_vars

----------------------------------------------------------------------------
(* Properties.                                                             *)

Terminated(c) == pc[c] \in {"done", "crashed", "cancelled"}

(* the message of a receive step failed to decode *)
IsBadJson(m) == m \in Messages /\ ~JsonLoads(m).ok

(* the message of a receive step decoded, and handling it raised *)
RaisesInHandling(m) ==
    /\ m \in Messages
    /\ JsonLoads(m).ok
    /\ ~HandleData(JsonLoads(m).val).ok

(* C1: after N register calls and M <= N unregister calls have returned,   *)
(* under any interleaving of connection opens and closes, the registry     *)
(* holds exactly N - M handles.                                            *)
C1_RegistrySize ==
    /\ calls.unregister <= calls.register
    /\ Cardinality(CLIENTS) = calls.register - calls.unregister

C1_Witness ==
    /\ calls.register = 3
    /\ calls.unregister = 1
    /\ Cardinality(CLIENTS) = 2

(* C2: the registry is exactly the set of connections whose handler is     *)
(* between register and unregister; a connection whose handler has         *)
(* finished is not in it.                                                  *)
C2_RegistryIsLiveHandlers ==
    /\ CLIENTS = {c \in Conns : pc[c] = "loop"}
    /\ \A c \in Conns : Terminated(c) => c \notin CLIENTS

C2_Witness ==
    \E c, d \in Conns :
        /\ pc[c] = "done"
        /\ pc[d] = "loop"
        /\ CLIENTS = {d}

(* C3: a message that is not valid JSON logs one parse-failure error and   *)
(* changes nothing else: the connection stays registered, its loop stays   *)
(* alive and able to take the next message, and no other state differs     *)
(* from what it was before the bad message.                                *)
C3_BadJsonIsSkipped ==
    [][\A c \in Conns :
        (last'.op = "receive" /\ last'.conn = c /\ IsBadJson(last'.msg)) =>
            /\ log' = <<ParseErrorLine(last'.msg)>>
            /\ c \in CLIENTS'
            /\ CanReceive(c)'
            /\ UNCHANGED <<CLIENTS, pc, chan, interrupted, sent, calls>>]_vars

C3_Witness ==
    /\ last.op = "receive"
    /\ IsBadJson(last.msg)
    /\ log = <<ParseErrorLine(TextNotJson)>>
    /\ CanReceive(last.conn)

(* C4 as stated: unregister never raises, whether or not the handle is     *)
(* in the registry.                                                        *)
C4_UnregisterNeverRaises == last.op = "unregister" => last.exc = ""

(* C4 amended: unregister removes a handle that is present and logs the    *)
(* new size; called with a handle that is not in the registry it raises    *)
(* KeyError, logs nothing and leaves the registry unchanged.               *)
C4_UnregisterRaisesOnAbsent ==
    [][\A h \in Handles :
        (last'.op = "unregister" /\ last'.conn = h) =>
            IF h \in CLIENTS
            THEN /\ CLIENTS' = CLIENTS \ {h}
                 /\ last'.exc = ""
                 /\ log' = <<ClientLine("disconnected", Cardinality(CLIENTS'))>>
            ELSE /\ CLIENTS' = CLIENTS
                 /\ last'.exc = "KeyError"
                 /\ log' = <<>>]_vars

C4_Witness ==
    /\ last.op = "unregister"
    /\ last.exc = "KeyError"
    /\ last.conn \notin CLIENTS
    /\ CLIENTS # {}

(* C5: when a decoded message makes field extraction or formatting raise,  *)
(* exactly one error line is logged and no other line, the connection      *)
(* stays registered and its loop goes on to the next message.              *)
C5_ProcessingErrorIsAbsorbed ==
    [][\A c \in Conns :
        (last'.op = "receive" /\ last'.conn = c /\ RaisesInHandling(last'.msg)) =>
            /\ Len(log') = 1
            /\ log'[1].level = "ERROR"
            /\ log'[1].kind = "processing_error"
            /\ c \in CLIENTS'
            /\ CanReceive(c)'
            /\ UNCHANGED <<CLIENTS, pc>>]_vars

C5_Witness ==
    /\ last.op = "receive"
    /\ last.msg = TextNullPosition
    /\ log = <<ProcessingErrorLine("AttributeError")>>
    /\ last.conn \in CLIENTS

(* C6: per connection the order is register, then message dispatches,      *)
(* then unregister: a message is dispatched only while its connection is   *)
(* in the registry, a handle enters the registry only in the first step of *)
(* its handler and leaves it only in the last, and a handler never goes    *)
(* back to an earlier stage, so each happens once.                         *)
C6_RegisterDispatchUnregister ==
    [][\A c \in Conns :
        /\ (last'.op = "receive" /\ last'.conn = c) =>
               (c \in CLIENTS /\ pc[c] = "loop")
        /\ (c \in CLIENTS' /\ c \notin CLIENTS) =>
               (pc[c] = "accepted" /\ pc'[c] = "loop")
        /\ (c \in CLIENTS /\ c \notin CLIENTS') =>
               (pc[c] = "loop" /\ pc'[c] = "done")
        /\ (pc[c] = "loop" /\ pc'[c] # "loop") => c \notin CLIENTS'
        /\ pc[c] = "loop" => pc'[c] \in {"loop", "done"}
        /\ Terminated(c) => pc'[c] = pc[c]]_vars

C6_Witness ==
    \E c \in Conns :
        /\ pc[c] = "done"
        /\ last = Step("unregister", c, "", "")
        /\ calls.register = 1
        /\ calls.unregister = 1

(* C7: a registered connection whose channel has ended, by a normal close, *)
(* a transport or protocol error, or cancellation on interrupt, is         *)
(* eventually out of the registry.                                         *)
C7_EndedIsUnregistered ==
    \A c \in Conns : (c \in CLIENTS /\ Ended(c)) ~> (c \notin CLIENTS)

C7_Witness ==
    \E c, d \in Conns :
        /\ pc[c] = "done" /\ chan[c] = "closed_error"
        /\ pc[d] = "done" /\ chan[d] = "open" /\ interrupted
        /\ CLIENTS = {}

(* C8: a parse failure, a processing exception or a connection error on    *)
(* one connection leaves every other connection as it was: same registry   *)
(* membership, same handler position, still able to take its next message. *)
C8_ErrorsAreIsolated ==
    [][\A c \in Conns :
        (/\ last'.conn = c
         /\ \/ last'.op = "receive" /\ IsBadJson(last'.msg)
            \/ last'.op = "receive" /\ RaisesInHandling(last'.msg)
            \/ last'.op = "unregister" /\ chan[c] = "closed_error") =>
            \A d \in Conns \ {c} :
                /\ (d \in CLIENTS') = (d \in CLIENTS)
                /\ pc'[d] = pc[d]
                /\ CanReceive(d) => CanReceive(d)']_vars

C8_Witness ==
    \E c, d \in Conns :
        /\ c # d
        /\ last = Step("unregister", c, "", "")
        /\ chan[c] = "closed_error"
        /\ CanReceive(d)
        /\ d \in CLIENTS

(* C9: every change of the registry is one register or unregister step     *)
(* that adds or removes exactly its own handle and logs, in the same step, *)
(* the size the registry has right after the change.                       *)
C9_LoggedCountIsSize ==
    [][/\ CLIENTS' # CLIENTS => last'.op \in {"register", "unregister"}
       /\ last'.op = "register" =>
              /\ CLIENTS' = CLIENTS \cup {last'.conn}
              /\ log' = <<ClientLine("connected", Cardinality(CLIENTS'))>>
       /\ last'.op = "unregister" =>
              /\ last'.conn \in CLIENTS
              /\ CLIENTS' = CLIENTS \ {last'.conn}
              /\ log' = <<ClientLine("disconnected", Cardinality(CLIENTS'))>>]_vars

C9_Witness ==
    /\ last.op = "register"
    /\ log = <<ClientLine("connected", 3)>>
    /\ calls.unregister = 0

(* C10: the server never sends a frame to any client, whatever was         *)
(* received; errors go to the log only.                                    *)
C10_NothingIsSent == sent = {}

C10_Witness ==
    /\ last.op = "receive"
    /\ log # <<>>
    /\ log[1].level = "ERROR"
    /\ Cardinality(CLIENTS) >= 2
    /\ sent = {}

----------------------------------------------------------------------------
(* Properties of the dispatch, on the loop body run directly.              *)

(* the loop body has run on a decoded JSON object *)
DispatchedObject == last.op = "dispatch" /\ decoded.t = "obj"

HasKey(k) == k \in DOMAIN decoded.o

(* the kind of line each `type` value stands for, as the spec lists them *)
ExpectedKind ==
    IF ~HasKey("type") THEN "pose"
    ELSE LET t == decoded.o["type"]
         IN  IF t.t # "str" THEN "unknown"
             ELSE CASE t.s \in {"pose_data", "pose"} -> "pose"
                    [] t.s \in {"toggle_state", "toggle"} -> "toggle"
                    [] t.s \in {"button_press", "button"} -> "button"
                    [] t.s \in {"reset_pose", "reset"} -> "reset"
                    [] OTHER -> "unknown"

(* C11: a decoded object with no `type` field is logged exactly as the     *)
(* same object with "type": "pose_data" added, and never as an unknown     *)
(* type.                                                                   *)
C11_UntypedIsPoseData ==
    (DispatchedObject /\ ~HasKey("type")) =>
        /\ log = ProcessDecoded(0, Obj(With(decoded.o, "type", Str("pose_data")))).log
        /\ Len(log) = 1
        /\ log[1].kind # "unknown"

C11_Witness ==
    /\ DispatchedObject
    /\ ~HasKey("type")
    /\ HasKey("x") /\ decoded.o["x"] = Num(12345)
    /\ HasKey("position")
    /\ log[1].kind = "pose"
    /\ log[1].x = Fixed(12345, 3)

(* C12: a decoded object whose processing raises nothing logs exactly one  *)
(* line, of the kind its `type` value stands for; the button and reset     *)
(* lines are fixed whatever else the object holds, and the warning names   *)
(* the unrecognised value.                                                 *)
C12_OneLinePerType ==
    (DispatchedObject /\ HandleData(decoded).ok) =>
        /\ Len(log) = 1
        /\ log[1].kind = ExpectedKind
        /\ ExpectedKind = "button" => log = <<ButtonLine>>
        /\ ExpectedKind = "reset" => log = <<ResetLine>>
        /\ ExpectedKind = "unknown" =>
               log = <<UnknownTypeLine(decoded.o["type"])>>

C12_Witness ==
    /\ DispatchedObject
    /\ HasKey("type") /\ decoded.o["type"] = Str("button")
    /\ HasKey("x") /\ HasKey("toggle_active")
    /\ log = <<ButtonLine>>

(* C13: a toggle message logs the state held by `toggle_active` when that  *)
(* key is present, whatever `isActive` holds; otherwise the one held by    *)
(* `isActive` when present; otherwise Inactive.                            *)
C13_TogglePrecedence ==
    (/\ DispatchedObject
     /\ HasKey("type")
     /\ decoded.o["type"] \in {Str("toggle_state"), Str("toggle")}) =>
        LET chosen == IF HasKey("toggle_active") THEN decoded.o["toggle_active"]
                      ELSE IF HasKey("isActive") THEN decoded.o["isActive"]
                      ELSE Bool(FALSE)
        IN  log = <<ToggleLine(IF chosen = Bool(TRUE) THEN "Active"
                               ELSE "Inactive")>>

C13_Witness ==
    /\ DispatchedObject
    /\ HasKey("type") /\ decoded.o["type"] = Str("toggle")
    /\ HasKey("toggle_active") /\ decoded.o["toggle_active"] = Bool(FALSE)
    /\ HasKey("isActive") /\ decoded.o["isActive"] = Bool(TRUE)
    /\ log = <<ToggleLine("Inactive")>>

(* the message is of the nested shape: its type is `pose` *)
IsNestedPose == HasKey("type") /\ decoded.o["type"] = Str("pose")

(* every one of the keys ks that f holds is a number *)
NumbersAt(f, ks) == \A k \in ks \cap DOMAIN f : f[k].t = "num"

(* the fields the position and the rotation are read from *)
PositionFields ==
    IF ~IsNestedPose THEN decoded.o
    ELSE IF HasKey("position") THEN decoded.o["position"].o ELSE <<>>

RotationFields ==
    IF ~IsNestedPose THEN decoded.o
    ELSE IF HasKey("rotation") THEN decoded.o["rotation"].o ELSE <<>>

ToggleKey == IF IsNestedPose THEN "isToggleActive" ELSE "toggle_active"

(* a pose message all of whose present fields have the expected type *)
ValidPose ==
    /\ DispatchedObject
    /\ ExpectedKind = "pose"
    /\ IsNestedPose =>
           /\ HasKey("position") => decoded.o["position"].t = "obj"
           /\ HasKey("rotation") => decoded.o["rotation"].t = "obj"
    /\ NumbersAt(PositionFields, {"x", "y", "z"})
    /\ NumbersAt(RotationFields, {"roll", "pitch", "yaw"})
    /\ NumbersAt(decoded.o, {"scale"})

(* C14: in a valid pose message of either shape every absent field is      *)
(* logged as its default: 0.000 for x, y, z, 0.00 for roll, pitch, yaw,    *)
(* 1.00 for scale, Inactive for the toggle; an absent position or rotation *)
(* object counts as one with no fields.                                    *)
C14_AbsentFieldsTakeDefaults ==
    ValidPose =>
        /\ Len(log) = 1
        /\ log[1].kind = "pose"
        /\ \A k \in {"x", "y", "z"} \ DOMAIN PositionFields :
               log[1][k] = [digits |-> 3, sign |-> "", units |-> 0]
        /\ \A k \in {"roll", "pitch", "yaw"} \ DOMAIN RotationFields :
               log[1][k] = [digits |-> 2, sign |-> "", units |-> 0]
        /\ ~HasKey("scale") =>
               log[1].scale = [digits |-> 2, sign |-> "", units |-> 100]
        /\ ~HasKey(ToggleKey) => log[1].toggle = "Inactive"

C14_Witness ==
    /\ ValidPose
    /\ IsNestedPose
    /\ ~HasKey("position")
    /\ HasKey("rotation") /\ DOMAIN decoded.o["rotation"].o = {"roll"}
    /\ log[1].x = [digits |-> 3, sign |-> "", units |-> 0]
    /\ log[1].yaw = [digits |-> 2, sign |-> "", units |-> 0]
    /\ log[1].scale = [digits |-> 2, sign |-> "", units |-> 100]

(* `out` is the numeral with `digits` decimals nearest to n ten-thousandths *)
IsNearest(n, out, digits) ==
    LET step == IF digits = 3 THEN 10 ELSE 100
    IN  /\ out.digits = digits
        /\ out.sign = (IF n < 0 THEN "-" ELSE "")
        /\ 2 * Abs(out.units * step - Abs(n)) <= step

(* C15: in a valid nested-shape message the logged x, y, z are the inputs  *)
(* position.x, .y, .z to 3 decimal places, the logged roll, pitch, yaw are *)
(* rotation.roll, .pitch, .yaw to 2 decimal places, the scale is the input *)
(* scale to 2 decimal places and the toggle is Active or Inactive as       *)
(* isToggleActive says.                                                    *)
C15_NestedValuesAreFormatted ==
    (ValidPose /\ IsNestedPose) =>
        /\ Len(log) = 1
        /\ log[1].kind = "pose"
        /\ \A k \in {"x", "y", "z"} \cap DOMAIN PositionFields :
               IsNearest(PositionFields[k].n, log[1][k], 3)
        /\ \A k \in {"roll", "pitch", "yaw"} \cap DOMAIN RotationFields :
               IsNearest(RotationFields[k].n, log[1][k], 2)
        /\ HasKey("scale") => IsNearest(decoded.o["scale"].n, log[1].scale, 2)
        /\ HasKey("isToggleActive") =>
               log[1].toggle = (IF decoded.o["isToggleActive"] = Bool(TRUE)
                                THEN "Active" ELSE "Inactive")

C15_Witness ==
    /\ ValidPose
    /\ IsNestedPose
    /\ HasKey("position") /\ DOMAIN decoded.o["position"].o = {"x", "y", "z"}
    /\ HasKey("rotation") /\ DOMAIN decoded.o["rotation"].o = {"roll", "pitch", "yaw"}
    /\ log[1].x.units = 1235
    /\ log[1].y = [digits |-> 3, sign |-> "-", units |-> 0]
    /\ log[1].z.units = 2
    /\ log[1].roll.units = 267
    /\ log[1].pitch.units = 12
    /\ log[1].yaw = [digits |-> 2, sign |-> "-", units |-> 4]

(* the keys each pose shape reads *)
NestedShapeKeys == {"type", "position", "rotation", "scale", "isToggleActive"}

FlatShapeKeys ==
    {"type", "x", "y", "z", "roll", "pitch", "yaw", "scale", "toggle_active"}

(* C16: the pose shape follows the `type` value alone: a `pose` message    *)
(* logs what it would log with only its nested-shape keys, a `pose_data`   *)
(* or untyped message what it would log with only its flat-shape keys; a   *)
(* `pose` message holding only flat fields logs zeros and Inactive.        *)
C16_ShapeFollowsType ==
    (DispatchedObject /\ ExpectedKind = "pose") =>
        LET read == IF IsNestedPose THEN NestedShapeKeys ELSE FlatShapeKeys
            kept == Obj(Restrict(decoded.o, DOMAIN decoded.o \cap read))
        IN  /\ log = ProcessDecoded(0, kept).log
            /\ (IsNestedPose /\ DOMAIN decoded.o \cap NestedShapeKeys = {"type"}) =>
                   log = <<[level |-> "INFO", kind |-> "pose",
                            x |-> [digits |-> 3, sign |-> "", units |-> 0],
                            y |-> [digits |-> 3, sign |-> "", units |-> 0],
                            z |-> [digits |-> 3, sign |-> "", units |-> 0],
                            roll |-> [digits |-> 2, sign |-> "", units |-> 0],
                            pitch |-> [digits |-> 2, sign |-> "", units |-> 0],
                            yaw |-> [digits |-> 2, sign |-> "", units |-> 0],
                            scale |-> [digits |-> 2, sign |-> "", units |-> 100],
                            toggle |-> "Inactive"]>>

C16_Witness ==
    /\ DispatchedObject
    /\ IsNestedPose
    /\ HasKey("x") /\ decoded.o["x"] = Num(12345)
    /\ HasKey("toggle_active") /\ decoded.o["toggle_active"] = Bool(TRUE)
    /\ log[1].kind = "pose"
    /\ log[1].x.units = 0
    /\ log[1].toggle = "Inactive"

(* C17: a step that dispatches an inbound message, whatever the message    *)
(* and its outcome, leaves the registry as it was; the registry changes    *)
(* only in a register or an unregister step.                               *)
C17_DispatchKeepsRegistry ==
    [][/\ last'.op = "receive" => CLIENTS' = CLIENTS
       /\ CLIENTS' # CLIENTS => last'.op \in {"register", "unregister"}]_vars

C17_Witness ==
    /\ last.op = "receive"
    /\ last.msg = TextFlatPose
    /\ log # <<>>
    /\ log[1].kind = "pose"
    /\ Cardinality(CLIENTS) = 2

====
